---- MODULE Spec2Model ----
(***************************************************************************)
(* Model of the two operational scripts of the repository:                 *)
(*   - migrateFiles  (scripts/migrate-uploadthing-files.ts): the batched   *)
(*     re-upload of files from one UploadThing account to another;         *)
(*   - migrate       (the Aiven -> Prisma PostgreSQL row migration).       *)
(* The JavaScript run-to-completion semantics is kept: one action is one   *)
(* synchronous stretch of code between two awaits.                         *)
(***************************************************************************)
EXTENDS Integers, Sequences, FiniteSets, TLC

(***************************************************************************)
(* Bounds of the model and program constants                               *)
(***************************************************************************)
\* longest manifest explored
MaxFiles == 6
\* at most this many transfer faults are injected by the environment in a run
MaxFaults == 1
\* manifests longer than this are explored under the default environment only
MaxFilesAnyEnv == 1
\* most rows a source table holds
MaxRows == 2
\* longest manifest of the batching loop taken alone
MaxManifest == 12
\* const batchSize = 5
batchSize == 5

\* JavaScript null / undefined, as they appear in the report
NULL == "<null>"
UNDEF == "<undefined>"

Digits == <<"0", "1", "2", "3", "4", "5", "6", "7", "8", "9">>

\* Number(n).toString() for n >= 0
RECURSIVE Itoa(_)
Itoa(n) == IF n < 10 THEN Digits[n + 1] ELSE Itoa(n \div 10) \o Digits[(n % 10) + 1]

Min(a, b) == IF a < b THEN a ELSE b

\* a || b on string values ('' , null and undefined are falsy)
Falsy(s) == s \in {"", NULL, UNDEF}
Or(a, b) == IF Falsy(a) THEN b ELSE a

(***************************************************************************)
(* Inputs: environment variables, the manifest file, the remote services   *)
(***************************************************************************)
\* process.env: which of the three variables are set
Envs == [UPLOADTHING_TOKEN : BOOLEAN, UPLOADTHING_SECRET : BOOLEAN, UPLOADTHING_APP_ID : BOOLEAN]
DefaultEnv == [UPLOADTHING_TOKEN |-> FALSE, UPLOADTHING_SECRET |-> TRUE, UPLOADTHING_APP_ID |-> TRUE]

\* interface OldFile (the fields the migration reads)
OldUrl(k) == "https://old.utfs.io/f/" \o Itoa(k)
OldFile(k, u) == [name |-> "file" \o Itoa(k), url |-> OldUrl(u)]

\* Manifests: records 1..n with pairwise distinct URLs, or the same with the
\* last record repeating the URL of the first one.
DistinctManifest(n) == [k \in 1..n |-> OldFile(k, k)]
DupManifest(n) == [k \in 1..n |-> OldFile(k, IF k = n THEN 1 ELSE k)]
Manifests == {DistinctManifest(n) : n \in 0..MaxFiles} \cup {DupManifest(n) : n \in 2..MaxFiles}

\* selected-rows.json on disk: missing, not parseable, or a manifest
Disks == {[exists |-> FALSE, parses |-> FALSE, files |-> <<>>],
          [exists |-> TRUE, parses |-> FALSE, files |-> <<>>]}
         \cup {[exists |-> TRUE, parses |-> TRUE, files |-> m] : m \in Manifests}

\* HTTP statuses the old account answers a download with
Statuses == {200, 404}
StatusText(s) == IF s = 200 THEN "OK" ELSE "Not Found"
\* Response.ok
ResponseOk(s) == s >= 200 /\ s <= 299

\* Values a rejected fetch / arrayBuffer / uploadFiles call can carry
ErrorObj(msg) == [type |-> "Error", text |-> "", message |-> msg, str |-> "Error: " \o msg]
FetchErrors == {ErrorObj("fetch failed")}
UploadErrors == {ErrorObj("Upload request failed")}

\* URL the new account gives to the upload made for record k
NewUrl(k) == "https://new.ufs.sh/f/" \o Itoa(k)

\* One element of the array utapi.uploadFiles resolves with
NoData == <<>>
UploadedFile(data, url, err) == [data |-> data, url |-> url, ufsUrl |-> UNDEF, fileUrl |-> UNDEF, error |-> err]
NoErr == [type |-> "none", text |-> ""]
DataOf(url, ufsUrl, fileUrl) == <<[url |-> url, ufsUrl |-> ufsUrl, fileUrl |-> fileUrl]>>

\* What utapi.uploadFiles([fileObj]) can resolve with for record k
UploadResults(k) ==
    { [isNull |-> TRUE, items |-> <<>>],
      [isNull |-> FALSE, items |-> <<>>],
      [isNull |-> FALSE, items |-> <<UploadedFile(DataOf(NewUrl(k), UNDEF, UNDEF), UNDEF, NoErr)>>],
      [isNull |-> FALSE, items |-> <<UploadedFile(DataOf(UNDEF, NewUrl(k), UNDEF), UNDEF, NoErr)>>],
      [isNull |-> FALSE, items |-> <<UploadedFile(DataOf(UNDEF, UNDEF, NewUrl(k)), UNDEF, NoErr)>>],
      [isNull |-> FALSE, items |-> <<UploadedFile(NoData, NewUrl(k), NoErr)>>],
      [isNull |-> FALSE, items |-> <<UploadedFile(DataOf(UNDEF, UNDEF, UNDEF), UNDEF, NoErr)>>],
      [isNull |-> FALSE, items |-> <<UploadedFile(NoData, UNDEF, [type |-> "string", text |-> "Invalid API key"])>>],
      [isNull |-> FALSE, items |-> <<UploadedFile(NoData, UNDEF, [type |-> "object", text |-> "FORBIDDEN"])>>] }

\* JSON.stringify of an error payload object {code: ...}
JsonStringify(text) == "{\"code\": \"" \o text \o "\"}"

(***************************************************************************)
(* State                                                                   *)
(***************************************************************************)
VARIABLES
    env,            \* process.env (set / unset)
    disk,           \* selected-rows.json
    pc,             \* where migrateFiles (and its top-level promise) stands
    oldFiles,       \* const oldFiles: OldFile[]
    i,              \* the for-loop index
    batchPromises,  \* the workers of the running batch: record index -> promise
    results,        \* const results: MigrationResult[]
    urlMapping,     \* const urlMapping: Record<string, string>
    processed, successful, failed,
    exitCode,       \* the process exit status, -1 while the process runs
    rejection,      \* the error migrateFiles() rejected with, or NoRejection
    fetchCalls,     \* record index -> number of fetch(file.url) calls made
    uploadCalls,    \* record index -> number of utapi.uploadFiles calls made
    batchesStarted, \* number of batches whose workers were launched
    delays,         \* number of 2-second waits completed
    reports,        \* the contents written to uploadthing-migration-results.json, in order
    \* the row migration (migrate)
    source,         \* the Aiven database: table -> rows, in findMany order
    unqueryable,    \* the source table that cannot be queried, or "none"
    dest,           \* the Prisma database: table -> set of rows
    rpc,            \* where migrate() stands
    tableIdx,       \* index in `tables` of the table being migrated
    rows,           \* the rows findMany returned for that table
    rowIdx,         \* index in `rows` of the row being upserted
    stats,          \* const stats: the source counts taken before the migration
    upsertCalls,    \* table -> number of upsert calls made
    schemaPushes,   \* number of `prisma db push` runs
    dbError,        \* the error migrate() threw, or NoDbError
    rowsExit,       \* the exit status of the row migration, -1 while it runs
    \* the MIME type inference of a worker, taken alone
    fileName,       \* file.name, as a sequence of characters
    mimeType,       \* let mimeType
    mpc,            \* where the inference stands
    \* the batching loop of migrateFiles, taken alone
    manifest,       \* oldFiles, up to MaxManifest records
    index,          \* the for-loop index i
    batch,          \* const batch = oldFiles.slice(i, i + batchSize)
    batches,        \* the batches taken so far, in order
    lpc,            \* where the loop stands
    \* the route handlers PATCH /api/user/grade and GET /api/user/profile
    users,          \* the User table: id -> row
    clients         \* client -> its request in the handler, then the response it got

filesVars == <<env, disk, pc, oldFiles, i, batchPromises, results, urlMapping, processed,
               successful, failed, exitCode, rejection, fetchCalls, uploadCalls,
               batchesStarted, delays, reports>>

rowsVars == <<source, unqueryable, dest, rpc, tableIdx, rows, rowIdx, stats, upsertCalls,
              schemaPushes, dbError, rowsExit>>

mimeVars == <<fileName, mimeType, mpc>>

loopVars == <<manifest, index, batch, batches, lpc>>

gradeVars == <<users, clients>>

vars == <<filesVars, rowsVars, mimeVars, loopVars, gradeVars>>

\* what an action of migrateFiles, and of migrate, leaves alone
besidesFiles == <<rowsVars, mimeVars, loopVars, gradeVars>>
besidesRows == <<filesVars, mimeVars, loopVars, gradeVars>>
besidesMime == <<filesVars, rowsVars, loopVars, gradeVars>>
besidesLoop == <<filesVars, rowsVars, mimeVars, gradeVars>>
besidesGrade == <<filesVars, rowsVars, mimeVars, loopVars>>

NoRejection == "<none>"
EmptyMapping == [u \in {} |-> ""]
NoPromises == [k \in {} |-> ""]

\* urlMapping[key] = value
MapPut(m, key, value) == [u \in (DOMAIN m) \cup {key} |-> IF u = key THEN value ELSE m[u]]

(***************************************************************************)
(* The batch worker: batch.map(async (file) => { try ... catch ... })      *)
(***************************************************************************)
Return(v) == [threw |-> FALSE, error |-> ErrorObj(""), newUrl |-> v]
Throw(e) == [threw |-> TRUE, error |-> e, newUrl |-> NULL]

\* if (!response.ok) throw new Error(`Failed to download: ...`)
CheckResponse(status) ==
    IF ~ResponseOk(status)
    THEN Throw(ErrorObj("Failed to download: " \o Itoa(status) \o " " \o StatusText(status)))
    ELSE Return(NULL)

\* Mutant of CheckUploadResult: the `if (!newUrl) throw` test is missing.
CheckUploadResultAnyUrl(uploadResult) ==
    IF uploadResult.isNull \/ Len(uploadResult.items) = 0
    THEN Throw(ErrorObj("Upload failed: No result returned"))
    ELSE LET result == uploadResult.items[1]
         IN IF result.error.type # "none"
            THEN Throw(ErrorObj("Upload failed: " \o
                       (IF result.error.type = "string" THEN result.error.text
                                                         ELSE JsonStringify(result.error.text))))
            ELSE LET resultData == IF result.data # NoData THEN result.data[1]
                                   ELSE [url |-> result.url, ufsUrl |-> result.ufsUrl, fileUrl |-> result.fileUrl]
                 IN Return(Or(Or(Or(resultData.url, resultData.ufsUrl), resultData.fileUrl), result.url))

\* the code between `await utapi.uploadFiles` and the success return
CheckUploadResult(uploadResult) ==
    IF uploadResult.isNull \/ Len(uploadResult.items) = 0
    THEN Throw(ErrorObj("Upload failed: No result returned"))
    ELSE LET result == uploadResult.items[1]
         IN IF result.error.type # "none"
            THEN Throw(ErrorObj("Upload failed: " \o
                       (IF result.error.type = "string" THEN result.error.text
                                                         ELSE JsonStringify(result.error.text))))
            ELSE LET resultData == IF result.data # NoData THEN result.data[1]
                                   ELSE [url |-> result.url, ufsUrl |-> result.ufsUrl, fileUrl |-> result.fileUrl]
                     newUrl == Or(Or(Or(resultData.url, resultData.ufsUrl), resultData.fileUrl), result.url)
                 IN IF Falsy(newUrl)
                    THEN Throw(ErrorObj("Upload failed: No URL in response. Check the result structure above."))
                    ELSE Return(newUrl)

\* "Better error extraction" of the catch block
ErrorMessage(error) ==
    IF error.type = "nullish" THEN "Unknown error"
    ELSE IF error.type = "string" THEN error.text
    ELSE IF ~Falsy(error.message) THEN error.message
    ELSE IF error.str # "[object Object]" THEN error.str
    ELSE JsonStringify(error.text)

Fulfilled(v) == [state |-> "fulfilled", value |-> v]
Rejected(e) == [state |-> "rejected", value |-> [oldUrl |-> "", newUrl |-> NULL, success |-> FALSE, error |-> ErrorMessage(e)]]
Pending(at) == [state |-> at, value |-> [oldUrl |-> "", newUrl |-> NULL, success |-> FALSE, error |-> UNDEF]]

\* the success return of the worker
WorkerReturn(file, newUrl) ==
    Fulfilled([oldUrl |-> file.url, newUrl |-> newUrl, success |-> TRUE, error |-> UNDEF])

\* Mutant of WorkerCatch: the catch block rethrows after logging.
WorkerCatchRethrows(file, error) == Rejected(error)

\* the catch block of the worker: the promise it settles with
WorkerCatch(file, error) ==
    Fulfilled([oldUrl |-> file.url, newUrl |-> NULL, success |-> FALSE, error |-> ErrorMessage(error)])

InFlight(k, at) == pc = "await" /\ k \in DOMAIN batchPromises /\ batchPromises[k].state = at

\* Mutant of Fail: the catch block forgets failed++.
FailUncounted(k, error) ==
    /\ failed < MaxFaults
    /\ batchPromises' = [batchPromises EXCEPT ![k] = WorkerCatch(oldFiles[k], error)]
    /\ UNCHANGED <<urlMapping, successful, failed>>

\* Mutant of Fail: the catch block records the failed URL in urlMapping.
FailMapped(k, error) ==
    /\ failed < MaxFaults
    /\ batchPromises' = [batchPromises EXCEPT ![k] = WorkerCatch(oldFiles[k], error)]
    /\ failed' = failed + 1
    /\ urlMapping' = MapPut(urlMapping, oldFiles[k].url, NULL)
    /\ UNCHANGED successful

\* the worker of record k leaves through its catch block with `error`
\* (the environment injects at most MaxFaults faults in a run)
Fail(k, error) ==
    /\ failed < MaxFaults
    /\ batchPromises' = [batchPromises EXCEPT ![k] = WorkerCatch(oldFiles[k], error)]
    /\ failed' = failed + 1
    /\ UNCHANGED <<urlMapping, successful>>

\* the worker of record k reaches its success return with newUrl
Succeed(k, newUrl) ==
    /\ urlMapping' = MapPut(urlMapping, oldFiles[k].url, newUrl)
    /\ successful' = successful + 1
    /\ batchPromises' = [batchPromises EXCEPT ![k] = WorkerReturn(oldFiles[k], newUrl)]
    /\ UNCHANGED failed

WorkerFrame == UNCHANGED <<env, disk, pc, oldFiles, i, results, processed, exitCode,
                           rejection, fetchCalls, batchesStarted, delays, reports, besidesFiles>>

\* await fetch(file.url) resolves with a response
FetchResolves(k, status) ==
    /\ InFlight(k, "fetch")
    /\ IF CheckResponse(status).threw
       THEN Fail(k, CheckResponse(status).error)
       ELSE /\ batchPromises' = [batchPromises EXCEPT ![k] = Pending("body")]
            /\ UNCHANGED <<urlMapping, successful, failed>>
    /\ UNCHANGED uploadCalls
    /\ WorkerFrame

\* await fetch(file.url) rejects
FetchRejects(k, error) ==
    /\ InFlight(k, "fetch")
    /\ Fail(k, error)
    /\ UNCHANGED uploadCalls
    /\ WorkerFrame

\* Mutant of BodyResolves: the worker calls uploadFiles twice.
BodyResolvesUploadsTwice(k) ==
    /\ InFlight(k, "body")
    /\ batchPromises' = [batchPromises EXCEPT ![k] = Pending("upload")]
    /\ uploadCalls' = [uploadCalls EXCEPT ![k] = @ + 2]
    /\ UNCHANGED <<urlMapping, successful, failed>>
    /\ WorkerFrame

\* await response.arrayBuffer() resolves; the worker builds the File and calls uploadFiles
BodyResolves(k) ==
    /\ InFlight(k, "body")
    /\ batchPromises' = [batchPromises EXCEPT ![k] = Pending("upload")]
    /\ uploadCalls' = [uploadCalls EXCEPT ![k] = @ + 1]
    /\ UNCHANGED <<urlMapping, successful, failed>>
    /\ WorkerFrame

\* await response.arrayBuffer() rejects
BodyRejects(k, error) ==
    /\ InFlight(k, "body")
    /\ Fail(k, error)
    /\ UNCHANGED uploadCalls
    /\ WorkerFrame

\* await utapi.uploadFiles([fileObj]) resolves
UploadResolves(k, uploadResult) ==
    /\ InFlight(k, "upload")
    /\ IF CheckUploadResult(uploadResult).threw
       THEN Fail(k, CheckUploadResult(uploadResult).error)
       ELSE Succeed(k, CheckUploadResult(uploadResult).newUrl)
    /\ UNCHANGED uploadCalls
    /\ WorkerFrame

\* await utapi.uploadFiles([fileObj]) rejects
UploadRejects(k, error) ==
    /\ InFlight(k, "upload")
    /\ Fail(k, error)
    /\ UNCHANGED uploadCalls
    /\ WorkerFrame

(***************************************************************************)
(* The coordinator: migrateFiles() and the handler of its promise          *)
(***************************************************************************)
\* process.exit(code)
Exit(code) == pc' = "exited" /\ exitCode' = code

\* Mutant of HasToken: the token of the environment is not looked at.
HasTokenPairOnly(e) == e.UPLOADTHING_SECRET /\ e.UPLOADTHING_APP_ID

\* the configuration test of the pre-flight: a token can be had
HasToken(e) == e.UPLOADTHING_TOKEN \/ (e.UPLOADTHING_SECRET /\ e.UPLOADTHING_APP_ID)

\* indices (1-based) of oldFiles.slice(i, i + batchSize)
BatchOf(files, from) == (from + 1)..Min(from + batchSize, Len(files))

\* Mutant of HasNextBatch: the test is i + batchSize <= oldFiles.length.
HasNextBatchInclusive(files, from) == from + batchSize <= Len(files)

\* if (i + batchSize < oldFiles.length)
HasNextBatch(files, from) == from + batchSize < Len(files)

\* the object handed to fs.writeFileSync (migratedAt left out)
Report == [totalFiles |-> Len(oldFiles), successful |-> successful, failed |-> failed,
           results |-> results, urlMapping |-> urlMapping]

\* Mutant of ExitStatus: failures are not reflected in the status.
ExitStatusZero(nFailed) == 0

\* the status the process ends with after the summary
ExitStatus(nFailed) == IF nFailed > 0 THEN 1 ELSE 0

\* Mutant of BatchResults: the values are pushed last record first.
RECURSIVE BatchResultsDescending(_, _)
BatchResultsDescending(promises, ks) ==
    IF ks = {} THEN <<>>
    ELSE LET k == CHOOSE x \in ks : \A y \in ks : x >= y
         IN <<promises[k].value>> \o BatchResultsDescending(promises, ks \ {k})

\* the ascending list of the values batchPromises resolved with
RECURSIVE BatchResults(_, _)
BatchResults(promises, ks) ==
    IF ks = {} THEN <<>>
    ELSE LET k == CHOOSE x \in ks : \A y \in ks : x <= y
         IN <<promises[k].value>> \o BatchResults(promises, ks \ {k})

\* lines 52-89: the token is taken from the environment or derived, or the process exits
CheckConfig ==
    /\ pc = "config"
    /\ IF ~HasToken(env) THEN Exit(1) ELSE pc' = "load" /\ UNCHANGED exitCode
    /\ UNCHANGED <<env, disk, oldFiles, i, batchPromises, results, urlMapping, processed,
                   successful, failed, rejection, fetchCalls, uploadCalls,
                   batchesStarted, delays, reports>>
    /\ UNCHANGED besidesFiles

\* lines 92-110: the manifest is read and parsed
LoadManifest ==
    /\ pc = "load"
    /\ IF ~disk.exists
       THEN Exit(1) /\ UNCHANGED <<oldFiles, rejection>>
       ELSE IF ~disk.parses
            THEN /\ pc' = "rejected"
                 /\ rejection' = "SyntaxError"
                 /\ UNCHANGED <<oldFiles, exitCode>>
            ELSE /\ pc' = "loop"
                 /\ oldFiles' = disk.files
                 /\ UNCHANGED <<exitCode, rejection>>
    /\ UNCHANGED <<env, disk, i, batchPromises, results, urlMapping, processed,
                   successful, failed, fetchCalls, uploadCalls,
                   batchesStarted, delays, reports>>
    /\ UNCHANGED besidesFiles

\* Mutant of LoopTest: the loop stops after a batch that holds a failure.
LoopTestStopOnFailure(files, from) == from < Len(files) /\ failed = 0

\* for (...; i < oldFiles.length; ...)
LoopTest(files, from) == from < Len(files)

\* the loop test holds: batch.map starts one worker per record, each up to its fetch
StartBatch ==
    /\ pc = "loop"
    /\ LoopTest(oldFiles, i)
    /\ batchPromises' = [k \in BatchOf(oldFiles, i) |-> Pending("fetch")]
    /\ fetchCalls' = [k \in DOMAIN fetchCalls |->
                        IF k \in BatchOf(oldFiles, i) THEN fetchCalls[k] + 1 ELSE fetchCalls[k]]
    /\ batchesStarted' = batchesStarted + 1
    /\ pc' = "await"
    /\ UNCHANGED <<env, disk, oldFiles, i, results, urlMapping, processed, successful,
                   failed, exitCode, rejection, uploadCalls, delays, reports>>
    /\ UNCHANGED besidesFiles

\* the loop test fails: the loop is left
LoopDone ==
    /\ pc = "loop"
    /\ ~LoopTest(oldFiles, i)
    /\ pc' = "write"
    /\ UNCHANGED <<env, disk, oldFiles, i, batchPromises, results, urlMapping, processed,
                   successful, failed, exitCode, rejection, fetchCalls, uploadCalls,
                   batchesStarted, delays, reports>>
    /\ UNCHANGED besidesFiles

\* Mutant of AwaitBatch: the loop goes on as soon as one worker's promise is fulfilled
\* (Promise.any in the place of Promise.all).
AwaitBatchAny ==
    /\ pc = "await"
    /\ IF \E k \in DOMAIN batchPromises : batchPromises[k].state = "rejected"
       THEN /\ pc' = "rejected"
            /\ rejection' = batchPromises[CHOOSE k \in DOMAIN batchPromises :
                                             batchPromises[k].state = "rejected"].value.error
            /\ UNCHANGED <<i, batchPromises, results, processed>>
       ELSE /\ \E k \in DOMAIN batchPromises : batchPromises[k].state = "fulfilled"
            /\ results' = results \o BatchResults(batchPromises, DOMAIN batchPromises)
            /\ processed' = processed + Cardinality(BatchOf(oldFiles, i))
            /\ batchPromises' = NoPromises
            /\ IF HasNextBatch(oldFiles, i)
               THEN pc' = "delay" /\ UNCHANGED i
               ELSE pc' = "loop" /\ i' = i + batchSize
            /\ UNCHANGED rejection
    /\ UNCHANGED <<env, disk, oldFiles, urlMapping, successful, failed, exitCode,
                   fetchCalls, uploadCalls, batchesStarted, delays, reports>>
    /\ UNCHANGED besidesFiles

\* await Promise.all(batchPromises): it rejects as soon as one worker's promise
\* rejects, and resolves once every worker's promise is fulfilled (lines 226-237)
AwaitBatch ==
    /\ pc = "await"
    /\ IF \E k \in DOMAIN batchPromises : batchPromises[k].state = "rejected"
       THEN /\ pc' = "rejected"
            /\ rejection' = batchPromises[CHOOSE k \in DOMAIN batchPromises :
                                             batchPromises[k].state = "rejected"].value.error
            /\ UNCHANGED <<i, batchPromises, results, processed>>
       ELSE /\ \A k \in DOMAIN batchPromises : batchPromises[k].state = "fulfilled"
            /\ results' = results \o BatchResults(batchPromises, DOMAIN batchPromises)
            /\ processed' = processed + Cardinality(BatchOf(oldFiles, i))
            /\ batchPromises' = NoPromises
            /\ IF HasNextBatch(oldFiles, i)
               THEN pc' = "delay" /\ UNCHANGED i
               ELSE pc' = "loop" /\ i' = i + batchSize
            /\ UNCHANGED rejection
    /\ UNCHANGED <<env, disk, oldFiles, urlMapping, successful, failed, exitCode,
                   fetchCalls, uploadCalls, batchesStarted, delays, reports>>
    /\ UNCHANGED besidesFiles

\* the 2000 ms timer fires; i += batchSize
Delay ==
    /\ pc = "delay"
    /\ delays' = delays + 1
    /\ i' = i + batchSize
    /\ pc' = "loop"
    /\ UNCHANGED <<env, disk, oldFiles, batchPromises, results, urlMapping, processed,
                   successful, failed, exitCode, rejection, fetchCalls, uploadCalls,
                   batchesStarted, reports>>
    /\ UNCHANGED besidesFiles

\* Mutant of WriteReport: a run with failures exits before the report is written.
WriteReportOnSuccessOnly(writes) ==
    /\ pc = "write"
    /\ IF failed > 0
       THEN Exit(1) /\ UNCHANGED <<reports, rejection>>
       ELSE IF writes
            THEN /\ reports' = Append(reports, Report)
                 /\ Exit(0)
                 /\ UNCHANGED rejection
            ELSE /\ pc' = "rejected"
                 /\ rejection' = "EACCES"
                 /\ UNCHANGED <<reports, exitCode>>
    /\ UNCHANGED <<env, disk, oldFiles, i, batchPromises, results, urlMapping, processed,
                   successful, failed, fetchCalls, uploadCalls, batchesStarted, delays>>
    /\ UNCHANGED besidesFiles

\* lines 241-268: the report is written, the summary printed, the exit status chosen
WriteReport(writes) ==
    /\ pc = "write"
    /\ IF writes
       THEN /\ reports' = Append(reports, Report)
            /\ Exit(ExitStatus(failed))
            /\ UNCHANGED rejection
       ELSE /\ pc' = "rejected"
            /\ rejection' = "EACCES"
            /\ UNCHANGED <<reports, exitCode>>
    /\ UNCHANGED <<env, disk, oldFiles, i, batchPromises, results, urlMapping, processed,
                   successful, failed, fetchCalls, uploadCalls, batchesStarted, delays>>
    /\ UNCHANGED besidesFiles

\* migrateFiles().catch(error => { ...; process.exit(1) })
FatalHandler ==
    /\ pc = "rejected"
    /\ Exit(1)
    /\ UNCHANGED <<env, disk, oldFiles, i, batchPromises, results, urlMapping, processed,
                   successful, failed, rejection, fetchCalls, uploadCalls,
                   batchesStarted, delays, reports>>
    /\ UNCHANGED besidesFiles

FilesInit ==
    /\ env \in Envs
    /\ disk \in Disks
    /\ Len(disk.files) <= MaxFilesAnyEnv \/ env = DefaultEnv
    /\ pc = "config"
    /\ oldFiles = <<>>
    /\ i = 0
    /\ batchPromises = NoPromises
    /\ results = <<>>
    /\ urlMapping = EmptyMapping
    /\ processed = 0
    /\ successful = 0
    /\ failed = 0
    /\ exitCode = -1
    /\ rejection = NoRejection
    /\ fetchCalls = [k \in 1..Len(disk.files) |-> 0]
    /\ uploadCalls = [k \in 1..Len(disk.files) |-> 0]
    /\ batchesStarted = 0
    /\ delays = 0
    /\ reports = <<>>

(***************************************************************************)
(* The row migration: the databases                                        *)
(***************************************************************************)
\* Mutant of tables: migrateCourses is called before migrateUsers.
tablesCourseFirst ==
    <<"Course", "User", "Attachment", "Chapter", "ChapterAttachment", "UserProgress",
      "PurchaseCode", "Purchase", "BalanceTransaction", "Quiz", "Question",
      "QuizResult", "QuizAnswer">>

\* const tables, in migration order
tables == <<"User", "Course", "Attachment", "Chapter", "ChapterAttachment", "UserProgress",
            "PurchaseCode", "Purchase", "BalanceTransaction", "Quiz", "Question",
            "QuizResult", "QuizAnswer">>

TableNames == {tables[n] : n \in 1..Len(tables)}

\* the tables whose ids the rows of a table carry: userId, courseId, chapterId,
\* createdBy / usedBy, purchaseCodeId, quizId, studentId, questionId, quizResultId
References(table) ==
    CASE table = "User" -> {}
      [] table = "Course" -> {"User"}
      [] table = "Attachment" -> {"Course"}
      [] table = "Chapter" -> {"Course"}
      [] table = "ChapterAttachment" -> {"Chapter"}
      [] table = "UserProgress" -> {"User", "Chapter"}
      [] table = "PurchaseCode" -> {"Course", "User"}
      [] table = "Purchase" -> {"User", "Course", "PurchaseCode"}
      [] table = "BalanceTransaction" -> {"User"}
      [] table = "Quiz" -> {"Course"}
      [] table = "Question" -> {"Quiz"}
      [] table = "QuizResult" -> {"User", "Quiz"}
      [] table = "QuizAnswer" -> {"Question", "QuizResult"}

\* the tables upserted `where` a compound unique key (userId_chapterId, userId_courseId)
PairTables == {"UserProgress", "Purchase"}

\* A row: its primary key, its compound key (the two foreign keys of a pair table, as
\* one value), its other columns with the timestamps (as one value), and videoType
\* (of Chapter rows only).
Row(id, pair, data, videoType) == [id |-> id, pair |-> pair, data |-> data, videoType |-> videoType]

VideoTypeOf(table, id) ==
    IF table # "Chapter" THEN UNDEF ELSE IF id = 1 THEN NULL ELSE "YOUTUBE"

\* the source database with n rows in every table
SourceDb(n) == [tb \in TableNames |-> [k \in 1..n |-> Row(k, k, "aiven", VideoTypeOf(tb, k))]]

\* what the destination holds before the run: nothing; an older copy of row 1; for the
\* pair tables a row with the compound key of row 1 under another id ("moved"), or a
\* row with the id of row 1 under another compound key ("clash")
DestProfiles == {"empty", "stale", "moved", "clash"}
DestDb(profile) ==
    [tb \in TableNames |->
        IF profile = "empty" THEN {}
        ELSE IF profile = "stale" \/ tb \notin PairTables THEN {Row(1, 1, "older", VideoTypeOf(tb, 2))}
        ELSE IF profile = "moved" THEN {Row(9, 1, "older", UNDEF)}
        ELSE {Row(1, 9, "older", UNDEF)}]

Unqueryables == {"none", "User", "Chapter"}

NoDbError == "<none>"

(***************************************************************************)
(* The row migration: the upserts                                          *)
(***************************************************************************)
\* the column values the migrate function of `table` writes for a source row
\* (migrateChapters writes videoType: chapter.videoType || "UPLOAD")
Written(table, row) ==
    IF table = "Chapter" THEN [row EXCEPT !.videoType = Or(row.videoType, "UPLOAD")] ELSE row

DbOk(rs) == [threw |-> FALSE, code |-> "", rows |-> rs]
DbThrow(code, rs) == [threw |-> TRUE, code |-> code, rows |-> rs]

\* Mutant of UpsertById: a plain create, which a row with the same id makes fail.
CreateById(table, destRows, row) ==
    IF \E d \in destRows : d.id = row.id
    THEN DbThrow("P2002", destRows)
    ELSE DbOk(destRows \cup {Written(table, row)})

\* upsert({ where: { id }, update: {all other columns}, create: {id, all other columns} })
UpsertById(table, destRows, row) ==
    IF \E d \in destRows : d.id = row.id
    THEN DbOk({d \in destRows : d.id # row.id} \cup {Written(table, row)})
    ELSE DbOk(destRows \cup {Written(table, row)})

\* upsert({ where: { userId_x: {...} }, update: {the non-key columns}, create: {all columns} })
UpsertByPair(table, destRows, row) ==
    IF \E d \in destRows : d.pair = row.pair
    THEN DbOk({IF d.pair = row.pair THEN [d EXCEPT !.data = row.data] ELSE d : d \in destRows})
    ELSE IF \E d \in destRows : d.id = row.id
         THEN DbThrow("P2002", destRows)
         ELSE DbOk(destRows \cup {row})

\* prismaClient.<table>.upsert(...) of the migrate function of `table`
Upsert(table, destRows, row) ==
    IF table \in PairTables THEN UpsertByPair(table, destRows, row)
                            ELSE UpsertById(table, destRows, row)

\* countRowsInTable: a failing count query is logged and counted as 0
countRowsInTable(tableName) ==
    IF tableName = unqueryable THEN 0 ELSE Len(source[tableName])

(***************************************************************************)
(* The row migration: migrate() and the handlers of its promise            *)
(***************************************************************************)
RowsFail(err) == rpc' = "failed" /\ dbError' = err

\* the module's top-level checks of AIVEN_DATABASE_URL and PRISMA_DATABASE_URL
CheckDbUrls(aivenSet, prismaSet) ==
    /\ rpc = "start"
    /\ IF ~aivenSet \/ ~prismaSet
       THEN /\ rpc' = "exited"
            /\ rowsExit' = 1
            /\ dbError' = "DATABASE_URL is not set"
       ELSE /\ rpc' = "connect"
            /\ UNCHANGED <<rowsExit, dbError>>
    /\ UNCHANGED <<source, unqueryable, dest, tableIdx, rows, rowIdx, stats, upsertCalls,
                   schemaPushes>>
    /\ UNCHANGED besidesRows

\* await aivenClient.$connect(); await prismaClient.$connect()
Connect(ok) ==
    /\ rpc = "connect"
    /\ IF ok THEN rpc' = "schema" /\ UNCHANGED dbError
             ELSE RowsFail("$connect(): P1001")
    /\ UNCHANGED <<source, unqueryable, dest, tableIdx, rows, rowIdx, stats, upsertCalls,
                   schemaPushes, rowsExit>>
    /\ UNCHANGED besidesRows

\* the probe can answer that table User does not exist only in a destination
\* database that has no tables yet, hence no rows
CanAnswer(probe) == probe = "missing" => \A tb \in TableNames : dest[tb] = {}

\* Mutant of ensurePrismaSchema: a failed `prisma db push` is run a second time.
ensurePrismaSchemaRetries(probe, pushOk, verifyOk) ==
    /\ rpc = "schema"
    /\ CanAnswer(probe)
    /\ IF probe = "ok"
       THEN rpc' = "count" /\ UNCHANGED <<dbError, schemaPushes>>
       ELSE IF probe = "missing"
            THEN /\ schemaPushes' = schemaPushes + (IF pushOk THEN 1 ELSE 2)
                 /\ IF pushOk /\ verifyOk
                    THEN rpc' = "count" /\ UNCHANGED dbError
                    ELSE RowsFail("Failed to create Prisma database schema")
            ELSE RowsFail("$queryRawUnsafe(): P1017") /\ UNCHANGED schemaPushes
    /\ UNCHANGED <<source, unqueryable, dest, tableIdx, rows, rowIdx, stats, upsertCalls,
                   rowsExit>>
    /\ UNCHANGED besidesRows

\* ensurePrismaSchema: probe is what SELECT 1 FROM "User" answers ("ok", "missing" for
\* P2021 / does not exist, "other"); pushOk and verifyOk are the outcomes of
\* `prisma db push` and of the second probe
ensurePrismaSchema(probe, pushOk, verifyOk) ==
    /\ rpc = "schema"
    /\ CanAnswer(probe)
    /\ IF probe = "ok"
       THEN rpc' = "count" /\ UNCHANGED <<dbError, schemaPushes>>
       ELSE IF probe = "missing"
            THEN /\ schemaPushes' = schemaPushes + 1
                 /\ IF pushOk /\ verifyOk
                    THEN rpc' = "count" /\ UNCHANGED dbError
                    ELSE RowsFail("Failed to create Prisma database schema")
            ELSE RowsFail("$queryRawUnsafe(): P1017") /\ UNCHANGED schemaPushes
    /\ UNCHANGED <<source, unqueryable, dest, tableIdx, rows, rowIdx, stats, upsertCalls,
                   rowsExit>>
    /\ UNCHANGED besidesRows

\* getAllTableCounts, then the call of the first migrate function (its findMany)
getAllTableCounts ==
    /\ rpc = "count"
    /\ stats' = [n \in 1..Len(tables) |-> [tableName |-> tables[n], rowCount |-> countRowsInTable(tables[n])]]
    /\ tableIdx' = 1
    /\ rpc' = "find"
    /\ UNCHANGED <<source, unqueryable, dest, rows, rowIdx, upsertCalls, schemaPushes,
                   dbError, rowsExit>>
    /\ UNCHANGED besidesRows

\* after the last row of a table: the next migrate function is called, or the
\* verification starts after the last table
AfterTable(n) ==
    IF n < Len(tables) THEN tableIdx' = n + 1 /\ rpc' = "find"
                       ELSE tableIdx' = n /\ rpc' = "verify"

\* Mutant of FindMany: the table that cannot be queried answers like any other.
FindManyAnswersAlways(ok) ==
    /\ rpc = "find"
    /\ IF ~ok
       THEN RowsFail("findMany(): P2021") /\ UNCHANGED <<rows, rowIdx, tableIdx>>
       ELSE /\ rows' = source[tables[tableIdx]]
            /\ rowIdx' = 1
            /\ IF Len(source[tables[tableIdx]]) = 0
               THEN AfterTable(tableIdx)
               ELSE rpc' = "upsert" /\ UNCHANGED tableIdx
            /\ UNCHANGED dbError
    /\ UNCHANGED <<source, unqueryable, dest, stats, upsertCalls, schemaPushes, rowsExit>>
    /\ UNCHANGED besidesRows

\* await aivenClient.<table>.findMany() settles; the for-of loop starts
FindMany(ok) ==
    /\ rpc = "find"
    /\ IF ~ok \/ tables[tableIdx] = unqueryable
       THEN RowsFail("findMany(): P2021") /\ UNCHANGED <<rows, rowIdx, tableIdx>>
       ELSE /\ rows' = source[tables[tableIdx]]
            /\ rowIdx' = 1
            /\ IF Len(source[tables[tableIdx]]) = 0
               THEN AfterTable(tableIdx)
               ELSE rpc' = "upsert" /\ UNCHANGED tableIdx
            /\ UNCHANGED dbError
    /\ UNCHANGED <<source, unqueryable, dest, stats, upsertCalls, schemaPushes, rowsExit>>
    /\ UNCHANGED besidesRows

\* Mutant of UpsertRow: the upsert sits in a per-row try/catch that logs and continues.
UpsertRowCaught(ok) ==
    /\ rpc = "upsert"
    /\ upsertCalls' = [upsertCalls EXCEPT ![tables[tableIdx]] = @ + 1]
    /\ LET tb == tables[tableIdx]
           res == IF ok THEN Upsert(tb, dest[tb], rows[rowIdx]) ELSE DbThrow("P1017", dest[tb])
       IN /\ dest' = [dest EXCEPT ![tb] = res.rows]
          /\ dbError' = IF res.threw THEN "upsert(): " \o res.code ELSE dbError
          /\ IF rowIdx < Len(rows)
             THEN rowIdx' = rowIdx + 1 /\ UNCHANGED <<rpc, tableIdx>>
             ELSE AfterTable(tableIdx) /\ UNCHANGED rowIdx
    /\ UNCHANGED <<source, unqueryable, rows, stats, schemaPushes, rowsExit>>
    /\ UNCHANGED besidesRows

\* await prismaClient.<table>.upsert(...) settles for rows[rowIdx]; the migrate
\* functions have no try/catch: a rejected upsert leaves the loop and the function
UpsertRow(ok) ==
    /\ rpc = "upsert"
    /\ upsertCalls' = [upsertCalls EXCEPT ![tables[tableIdx]] = @ + 1]
    /\ LET tb == tables[tableIdx]
           res == IF ok THEN Upsert(tb, dest[tb], rows[rowIdx]) ELSE DbThrow("P1017", dest[tb])
       IN IF res.threw
          THEN RowsFail("upsert(): " \o res.code) /\ UNCHANGED <<dest, rowIdx, tableIdx>>
          ELSE /\ dest' = [dest EXCEPT ![tb] = res.rows]
               /\ IF rowIdx < Len(rows)
                  THEN rowIdx' = rowIdx + 1 /\ UNCHANGED <<rpc, tableIdx>>
                  ELSE AfterTable(tableIdx) /\ UNCHANGED rowIdx
               /\ UNCHANGED dbError
    /\ UNCHANGED <<source, unqueryable, rows, stats, schemaPushes, rowsExit>>
    /\ UNCHANGED besidesRows

\* the destination counts are queried and compared with stats (logged only)
Verify(ok) ==
    /\ rpc = "verify"
    /\ IF ok THEN rpc' = "done" /\ UNCHANGED dbError
             ELSE RowsFail("$queryRawUnsafe(): P1017")
    /\ UNCHANGED <<source, unqueryable, dest, tableIdx, rows, rowIdx, stats, upsertCalls,
                   schemaPushes, rowsExit>>
    /\ UNCHANGED besidesRows

\* catch (rethrow) and finally (disconnect) of migrate, then
\* .then(() => process.exit(0)) / .catch(() => process.exit(1))
Settle ==
    /\ rpc \in {"done", "failed"}
    /\ rowsExit' = IF rpc = "done" THEN 0 ELSE 1
    /\ rpc' = "exited"
    /\ UNCHANGED <<source, unqueryable, dest, tableIdx, rows, rowIdx, stats, upsertCalls,
                   schemaPushes, dbError>>
    /\ UNCHANGED besidesRows

RowsInit ==
    /\ source \in {SourceDb(n) : n \in 0..MaxRows}
    /\ unqueryable \in Unqueryables
    /\ dest \in {DestDb(p) : p \in DestProfiles}
    /\ rpc = "start"
    /\ tableIdx = 0
    /\ rows = <<>>
    /\ rowIdx = 0
    /\ stats = <<>>
    /\ upsertCalls = [tb \in TableNames |-> 0]
    /\ schemaPushes = 0
    /\ dbError = NoDbError
    /\ rowsExit = -1

\* the program that is not running
FilesIdle ==
    /\ env = DefaultEnv
    /\ disk = [exists |-> FALSE, parses |-> FALSE, files |-> <<>>]
    /\ pc = "idle"
    /\ oldFiles = <<>>
    /\ i = 0
    /\ batchPromises = NoPromises
    /\ results = <<>>
    /\ urlMapping = EmptyMapping
    /\ processed = 0
    /\ successful = 0
    /\ failed = 0
    /\ exitCode = -1
    /\ rejection = NoRejection
    /\ fetchCalls = <<>>
    /\ uploadCalls = <<>>
    /\ batchesStarted = 0
    /\ delays = 0
    /\ reports = <<>>

RowsIdle ==
    /\ source = SourceDb(0)
    /\ unqueryable = "none"
    /\ dest = DestDb("empty")
    /\ rpc = "idle"
    /\ tableIdx = 0
    /\ rows = <<>>
    /\ rowIdx = 0
    /\ stats = <<>>
    /\ upsertCalls = [tb \in TableNames |-> 0]
    /\ schemaPushes = 0
    /\ dbError = NoDbError
    /\ rowsExit = -1

(***************************************************************************)
(* The MIME type of a file name (lines 130-140)                            *)
(***************************************************************************)
UpperLetters == <<"A", "B", "C", "D", "E", "F", "G", "H", "I", "J", "K", "L", "M",
                  "N", "O", "P", "Q", "R", "S", "T", "U", "V", "W", "X", "Y", "Z">>
LowerLetters == <<"a", "b", "c", "d", "e", "f", "g", "h", "i", "j", "k", "l", "m",
                  "n", "o", "p", "q", "r", "s", "t", "u", "v", "w", "x", "y", "z">>

\* String.prototype.toLowerCase, character by character
ToLowerChar(c) ==
    IF \E n \in 1..Len(UpperLetters) : UpperLetters[n] = c
    THEN LowerLetters[CHOOSE n \in 1..Len(UpperLetters) : UpperLetters[n] = c]
    ELSE c
toLowerCase(str) == [n \in 1..Len(str) |-> ToLowerChar(str[n])]

ToUpperChar(c) ==
    IF \E n \in 1..Len(LowerLetters) : LowerLetters[n] = c
    THEN UpperLetters[CHOOSE n \in 1..Len(LowerLetters) : LowerLetters[n] = c]
    ELSE c

Max(S) == CHOOSE x \in S : \A y \in S : x >= y

\* path.extname (POSIX): trailing separators are ignored; in the last portion of the
\* path the extension runs from the last "." to the end; it is empty when there is no
\* ".", when the only "." is the first character of that portion, or for ".."
extname(p) ==
    LET end == IF \A n \in 1..Len(p) : p[n] = "/" THEN 0
               ELSE Max({n \in 1..Len(p) : p[n] # "/"})
        seps == {n \in 1..end : p[n] = "/"}
        startPart == IF seps = {} THEN 0 ELSE Max(seps)
        dots == {n \in (startPart + 1)..end : p[n] = "."}
        startDot == Max(dots)
    IN IF dots = {} THEN <<>>
       ELSE IF startDot = startPart + 1 THEN <<>>
       ELSE IF SubSeq(p, startPart + 1, end) = <<".", ".">> THEN <<>>
       ELSE SubSeq(p, startDot, end)

\* Mutant of MimeTypeOf: the extension is compared as it is spelled in the name.
MimeTypeOfCaseSensitive(name) ==
    LET extension == extname(name)
    IN IF extension \in {<<".", "j", "p", "g">>, <<".", "j", "p", "e", "g">>} THEN "image/jpeg"
       ELSE IF extension = <<".", "p", "n", "g">> THEN "image/png"
       ELSE IF extension = <<".", "g", "i", "f">> THEN "image/gif"
       ELSE IF extension = <<".", "w", "e", "b", "p">> THEN "image/webp"
       ELSE IF extension = <<".", "p", "d", "f">> THEN "application/pdf"
       ELSE IF extension \in {<<".", "m", "p", "4">>, <<".", "m", "o", "v">>} THEN "video/mp4"
       ELSE IF extension = <<".", "m", "p", "3">> THEN "audio/mpeg"
       ELSE "application/octet-stream"

\* lines 130-140: the extension, lower-cased, and the if / else-if chain
MimeTypeOf(name) ==
    LET extension == toLowerCase(extname(name))
    IN IF extension \in {<<".", "j", "p", "g">>, <<".", "j", "p", "e", "g">>} THEN "image/jpeg"
       ELSE IF extension = <<".", "p", "n", "g">> THEN "image/png"
       ELSE IF extension = <<".", "g", "i", "f">> THEN "image/gif"
       ELSE IF extension = <<".", "w", "e", "b", "p">> THEN "image/webp"
       ELSE IF extension = <<".", "p", "d", "f">> THEN "application/pdf"
       ELSE IF extension \in {<<".", "m", "p", "4">>, <<".", "m", "o", "v">>} THEN "video/mp4"
       ELSE IF extension = <<".", "m", "p", "3">> THEN "audio/mpeg"
       ELSE "application/octet-stream"

\* File names: a stem followed by an ending. The endings are the nine extensions of
\* the chain in every spelling of upper and lower case, and endings outside of it.
RECURSIVE Spellings(_)
Spellings(str) ==
    IF str = <<>> THEN {<<>>}
    ELSE {<<c>> \o rest : c \in {str[1], ToUpperChar(str[1])}, rest \in Spellings(Tail(str))}

ChainExtensions ==
    {<<".", "j", "p", "g">>, <<".", "j", "p", "e", "g">>, <<".", "p", "n", "g">>,
     <<".", "g", "i", "f">>, <<".", "w", "e", "b", "p">>, <<".", "p", "d", "f">>,
     <<".", "m", "p", "4">>, <<".", "m", "o", "v">>, <<".", "m", "p", "3">>}

OtherEndings ==
    {<<>>, <<".">>, <<".", "z", "i", "p">>, <<".", "Z", "I", "P">>, <<".", "j", "p">>,
     <<".", "j", "p", "g", "x">>, <<".", "p", "n", "g", ".">>, <<"j", "p", "g">>,
     <<".", "p", "n", "g", "/">>, <<".", "p", "d", "f", "/", "x">>}

Stems ==
    {<<>>, <<"a">>, <<"a", ".", "p", "n", "g">>, <<"d", ".", "m", "p", "3", "/", "a">>,
     <<"d", "/">>, <<".">>, <<"p", "h", "o", "t", "o">>,
     <<"a", "r", "c", "h", "i", "v", "e">>}

FileNames ==
    {stem \o ending : stem \in Stems,
                      ending \in UNION {Spellings(e) : e \in ChainExtensions} \cup OtherEndings}

\* a worker comes to line 130 with the name of its record
NameFile(name) ==
    /\ mpc = "start"
    /\ fileName' = name
    /\ mpc' = "named"
    /\ UNCHANGED mimeType
    /\ UNCHANGED besidesMime

\* lines 130-140 are run
InferMimeType ==
    /\ mpc = "named"
    /\ mimeType' = MimeTypeOf(fileName)
    /\ mpc' = "typed"
    /\ UNCHANGED fileName
    /\ UNCHANGED besidesMime

MimeInit == fileName = <<>> /\ mimeType = "" /\ mpc = "start"
MimeIdle == fileName = <<>> /\ mimeType = "" /\ mpc = "idle"

(***************************************************************************)
(* The batching loop of migrateFiles without its workers (lines 112-238)   *)
(***************************************************************************)
\* Mutant of slice: the element at index `end` is taken too.
sliceThroughEnd(arr, start, end) == SubSeq(arr, start + 1, Min(end + 1, Len(arr)))

\* Array.prototype.slice(start, end) for 0 <= start <= end
slice(arr, start, end) == SubSeq(arr, start + 1, Min(end, Len(arr)))

\* the manifests of the loop taken alone
LongManifests ==
    {DistinctManifest(n) : n \in 0..MaxManifest} \cup {DupManifest(n) : n \in 2..MaxManifest}

\* line 113: the loop test holds and the batch is sliced off; its workers start
SliceBatch ==
    /\ lpc = "loop"
    /\ LoopTest(manifest, index)
    /\ batch' = slice(manifest, index, index + batchSize)
    /\ batches' = Append(batches, batch')
    /\ lpc' = "await"
    /\ UNCHANGED <<manifest, index>>
    /\ UNCHANGED besidesLoop

\* lines 226-237: the workers of the batch have settled
BatchSettles ==
    /\ lpc = "await"
    /\ IF HasNextBatch(manifest, index)
       THEN lpc' = "delay" /\ UNCHANGED index
       ELSE lpc' = "loop" /\ index' = index + batchSize
    /\ UNCHANGED <<manifest, batch, batches>>
    /\ UNCHANGED besidesLoop

\* line 236: the timer fires; i += batchSize
Pause ==
    /\ lpc = "delay"
    /\ index' = index + batchSize
    /\ lpc' = "loop"
    /\ UNCHANGED <<manifest, batch, batches>>
    /\ UNCHANGED besidesLoop

\* the loop test fails
LeaveLoop ==
    /\ lpc = "loop"
    /\ ~LoopTest(manifest, index)
    /\ lpc' = "left"
    /\ UNCHANGED <<manifest, index, batch, batches>>
    /\ UNCHANGED besidesLoop

LoopInit ==
    /\ manifest \in LongManifests
    /\ index = 0
    /\ batch = <<>>
    /\ batches = <<>>
    /\ lpc = "loop"

LoopIdle ==
    /\ manifest = <<>>
    /\ index = 0
    /\ batch = <<>>
    /\ batches = <<>>
    /\ lpc = "idle"

(***************************************************************************)
(* The route handlers PATCH /api/user/grade and GET /api/user/profile      *)
(***************************************************************************)
\* JSON values as the handler sees them: a type tag and the value's text
JString(v) == [t |-> "string", v |-> v]
JNumber(v) == [t |-> "number", v |-> v]
JBoolean(v) == [t |-> "boolean", v |-> v]
JNull == [t |-> "null", v |-> "null"]
JUndefined == [t |-> "undefined", v |-> "undefined"]
JArray(v) == [t |-> "array", v |-> v]

\* JavaScript truthiness of such a value
Truthy(x) ==
    CASE x.t = "string" -> x.v # ""
      [] x.t = "number" -> x.v # "0"
      [] x.t = "boolean" -> x.v = "true"
      [] x.t \in {"null", "undefined"} -> FALSE
      [] OTHER -> TRUE

\* const validGrades (the three Arabic grade names, here in English)
validGrades == <<"first secondary", "second secondary", "third secondary">>

\* Array.prototype.includes: strict equality with an element
includes(arr, x) == x.t = "string" /\ \E n \in 1..Len(arr) : arr[n] = x.v

\* the values a request body carries as grade
GradeValues ==
    {JString(validGrades[1]), JString(validGrades[2]), JString(""),
     JString("fourth secondary"), JNull, JUndefined, JNumber("0"), JNumber("5"),
     JBoolean("false"), JBoolean("true"), JArray(validGrades[1])}

\* what await req.json() gives: a rejection (no JSON), the JSON null, a JSON number,
\* or an object with or without the key grade
Bodies ==
    {[kind |-> "unparseable", grade |-> JUndefined], [kind |-> "null", grade |-> JUndefined],
     [kind |-> "number", grade |-> JUndefined]}
    \cup {[kind |-> "object", grade |-> g] : g \in GradeValues}
NoBody == [kind |-> "none", grade |-> JUndefined]

\* session?.user?.id as getServerSession gives it: no session, an empty id, the id of
\* a user with a row, the id of a user whose row is gone
SessionUserIds == {UNDEF, "", "u1", "u2", "u3"}

\* the User rows (the columns the two handlers touch or select)
UserRow(grade, fullName, phoneNumber) ==
    [grade |-> grade, fullName |-> fullName, phoneNumber |-> phoneNumber]
InitialUsers ==
    [id \in {"u1", "u2"} |->
        IF id = "u1" THEN UserRow(NULL, "Student One", "0100")
                     ELSE UserRow(validGrades[3], "Student Two", "0200")]

Clients == {"c1", "c2"}

\* a database call: the `where` id and the grade of `data`
NoCall == [made |-> FALSE, where |-> "", grade |-> ""]
UpdateCall(id, grade) == [made |-> TRUE, where |-> id, grade |-> grade]

\* a response: its status and the grade of its JSON body (UNDEF if it has none)
NoResponse == [status |-> 0, grade |-> UNDEF]
Response(status, grade) == [status |-> status, grade |-> grade]

Request(method) ==
    [at |-> "session", method |-> method, session |-> UNDEF, body |-> NoBody,
     call |-> NoCall, response |-> NoResponse]
NoRequest ==
    [at |-> "idle", method |-> "", session |-> UNDEF, body |-> NoBody,
     call |-> NoCall, response |-> NoResponse]

\* the handler returns a response
Respond(cs, c, response) == [cs EXCEPT ![c].at = "responded", ![c].response = response]

\* Mutant of dbUserUpdate: the row is chosen by position, not by the `where` id.
dbUserUpdateFirstRow(table, call) ==
    IF call.where \notin DOMAIN table
    THEN [threw |-> TRUE, table |-> table]
    ELSE [threw |-> FALSE,
          table |-> [table EXCEPT !["u1"] = [@ EXCEPT !.grade = call.grade]]]

\* db.user.update({ where: { id }, data: { grade } }): P2025 if no row has the id
dbUserUpdate(table, call) ==
    IF call.where \notin DOMAIN table
    THEN [threw |-> TRUE, table |-> table]
    ELSE [threw |-> FALSE,
          table |-> [table EXCEPT ![call.where] = [@ EXCEPT !.grade = call.grade]]]

\* Mutant of GradeIsRefused: any truthy grade is let through.
GradeIsNeverRefused(grade) == FALSE

\* line 18: if (grade && !validGrades.includes(grade))
GradeIsRefused(grade) == Truthy(grade) /\ ~includes(validGrades, grade)

\* line 28: grade || null
GradeOrNull(grade) == IF Truthy(grade) THEN grade.v ELSE NULL

\* a client sends a request (after the response to its previous one)
Receive(c, method) ==
    /\ clients[c].at \in {"idle", "responded"}
    /\ clients' = [clients EXCEPT ![c] = Request(method)]
    /\ UNCHANGED users
    /\ UNCHANGED besidesGrade

\* lines 8-12 of either handler: await getServerSession settles
Authenticate(c, threw, id) ==
    /\ clients[c].at = "session"
    /\ clients' =
          IF threw THEN Respond(clients, c, Response(500, UNDEF))
          ELSE IF Falsy(id) THEN Respond(clients, c, Response(401, UNDEF))
          ELSE [clients EXCEPT ![c].session = id,
                                ![c].at = IF clients[c].method = "PATCH" THEN "json" ELSE "find"]
    /\ UNCHANGED users
    /\ UNCHANGED besidesGrade

\* PATCH lines 14-20: await req.json() settles, grade is taken out and validated
Validate(c, body) ==
    /\ clients[c].at = "json"
    /\ clients' =
          IF body.kind \in {"unparseable", "null"}
          THEN Respond([clients EXCEPT ![c].body = body], c, Response(500, UNDEF))
          ELSE IF GradeIsRefused(body.grade)
               THEN Respond([clients EXCEPT ![c].body = body], c, Response(400, UNDEF))
               ELSE [clients EXCEPT ![c].body = body, ![c].at = "update",
                                    ![c].call = UpdateCall(clients[c].session,
                                                           GradeOrNull(body.grade))]
    /\ UNCHANGED users
    /\ UNCHANGED besidesGrade

\* PATCH lines 23-36: await db.user.update settles (dbOk: the database answers)
Update(c, dbOk) ==
    /\ clients[c].at = "update"
    /\ LET res == dbUserUpdate(users, clients[c].call)
       IN IF ~dbOk \/ res.threw
          THEN /\ clients' = Respond(clients, c, Response(500, UNDEF))
               /\ UNCHANGED users
          ELSE /\ users' = res.table
               /\ clients' = Respond(clients, c,
                                     Response(200, res.table[clients[c].call.where].grade))
    /\ UNCHANGED besidesGrade

\* GET lines 14-37: await db.user.findUnique settles
Find(c, dbOk) ==
    /\ clients[c].at = "find"
    /\ clients' =
          IF ~dbOk THEN Respond(clients, c, Response(500, UNDEF))
          ELSE IF clients[c].session \notin DOMAIN users
               THEN Respond(clients, c, Response(404, UNDEF))
               ELSE Respond(clients, c, Response(200, users[clients[c].session].grade))
    /\ UNCHANGED users
    /\ UNCHANGED besidesGrade

GradeInit ==
    /\ users = InitialUsers
    /\ clients = [c \in Clients |-> NoRequest]

GradeIdle ==
    /\ users = InitialUsers
    /\ clients = [c \in {} |-> NoRequest]

\* migrateFiles
Init == FilesInit /\ RowsIdle /\ MimeIdle /\ LoopIdle /\ GradeIdle

Next ==
    \/ CheckConfig
    \/ LoadManifest
    \/ StartBatch
    \/ \E k \in DOMAIN batchPromises, status \in Statuses : FetchResolves(k, status)
    \/ \E k \in DOMAIN batchPromises, error \in FetchErrors : FetchRejects(k, error)
    \/ \E k \in DOMAIN batchPromises : BodyResolves(k)
    \/ \E k \in DOMAIN batchPromises, error \in FetchErrors : BodyRejects(k, error)
    \/ \E k \in DOMAIN batchPromises : \E uploadResult \in UploadResults(k) : UploadResolves(k, uploadResult)
    \/ \E k \in DOMAIN batchPromises, error \in UploadErrors : UploadRejects(k, error)
    \/ AwaitBatch
    \/ Delay
    \/ LoopDone
    \/ \E writes \in BOOLEAN : WriteReport(writes)
    \/ FatalHandler

Spec == Init /\ [][Next]_vars

\* migrate
InitRows == FilesIdle /\ RowsInit /\ MimeIdle /\ LoopIdle /\ GradeIdle

NextRows ==
    \/ \E aivenSet, prismaSet \in BOOLEAN : CheckDbUrls(aivenSet, prismaSet)
    \/ \E ok \in BOOLEAN : Connect(ok)
    \/ \E probe \in {"ok", "missing", "other"}, pushOk, verifyOk \in BOOLEAN :
          ensurePrismaSchema(probe, pushOk, verifyOk)
    \/ getAllTableCounts
    \/ \E ok \in BOOLEAN : FindMany(ok)
    \/ \E ok \in BOOLEAN : UpsertRow(ok)
    \/ \E ok \in BOOLEAN : Verify(ok)
    \/ Settle

SpecRows == InitRows /\ [][NextRows]_vars

\* the MIME type inference
InitMime == FilesIdle /\ RowsIdle /\ MimeInit /\ LoopIdle /\ GradeIdle

NextMime ==
    \/ \E name \in FileNames : NameFile(name)
    \/ InferMimeType

SpecMime == InitMime /\ [][NextMime]_vars

\* the batching loop
InitLoop == FilesIdle /\ RowsIdle /\ MimeIdle /\ LoopInit /\ GradeIdle

NextLoop ==
    \/ SliceBatch
    \/ BatchSettles
    \/ Pause
    \/ LeaveLoop

SpecLoop == InitLoop /\ [][NextLoop]_vars

\* the route handlers, serving two clients at a time
InitGrade == FilesIdle /\ RowsIdle /\ MimeIdle /\ LoopIdle /\ GradeInit

NextGrade ==
    \/ \E c \in Clients, method \in {"PATCH", "GET"} : Receive(c, method)
    \/ \E c \in Clients, threw \in BOOLEAN, id \in SessionUserIds : Authenticate(c, threw, id)
    \/ \E c \in Clients, body \in Bodies : Validate(c, body)
    \/ \E c \in Clients, dbOk \in BOOLEAN : Update(c, dbOk)
    \/ \E c \in Clients, dbOk \in BOOLEAN : Find(c, dbOk)

SpecGrade == InitGrade /\ [][NextGrade]_vars

(***************************************************************************)
(* Properties of migrateFiles                                              *)
(***************************************************************************)
WrittenReports == {reports[j] : j \in 1..Len(reports)}

CeilDiv(a, b) == (a + b - 1) \div b

\* the run was ended by a fatal condition: a failed pre-flight check or a rejection
\* of migrateFiles() handled by the top-level catch
FatalRun == ~HasToken(env) \/ ~disk.exists \/ rejection # NoRejection

\* the outcome of record k, once its worker has settled
IsSettled(k) ==
    \/ k \in DOMAIN batchPromises /\ batchPromises[k].state \in {"fulfilled", "rejected"}
    \/ k \in 1..Len(results)
OutcomeOf(k) == IF k \in DOMAIN batchPromises THEN batchPromises[k].value ELSE results[k]

\* error messages of an outcome whose download (fetch or body read) failed
DownloadFailureMessages ==
    {ErrorMessage(e) : e \in FetchErrors}
    \cup {ErrorMessage(CheckResponse(st).error) : st \in {x \in Statuses : ~ResponseOk(x)}}

\* C1: every written report has exactly one entry per manifest record, the n-th entry
\* being the outcome of the n-th record, whatever the completion order of the workers.
C1_OneOutcomePerRecord ==
    \A r \in WrittenReports :
        /\ Len(r.results) = Len(oldFiles)
        /\ \A n \in 1..Len(oldFiles) : r.results[n].oldUrl = oldFiles[n].url

\* C1 witness: a report of a two-record batch in which the worker of record 2 completed
\* before the worker of record 1 (both wrote the same key, record 1 wrote last).
C1_Witness ==
    \E r \in WrittenReports :
        /\ Len(r.results) = 2
        /\ r.results[1].success /\ r.results[2].success
        /\ r.results[1].oldUrl = r.results[2].oldUrl
        /\ r.results[1].newUrl # r.results[2].newUrl
        /\ r.urlMapping[r.results[1].oldUrl] = r.results[1].newUrl

\* C2: at the end of every batch successful + failed = processed, and in every written
\* report successful + failed = totalFiles.
C2_CountersAddUp ==
    /\ pc \in {"loop", "delay", "write"} => successful + failed = processed
    /\ \A r \in WrittenReports : r.successful + r.failed = r.totalFiles

\* C2 witness: a report of a two-batch run with successes and a failure.
C2_Witness ==
    \E r \in WrittenReports : r.totalFiles > batchSize /\ r.successful > 0 /\ r.failed > 0

\* C3 as stated: successes have a newUrl and the number of urlMapping entries equals
\* successful; failures have newUrl = null and a non-empty error.
C3_Original ==
    \A r \in WrittenReports :
        /\ \A n \in 1..Len(r.results) :
              IF r.results[n].success
              THEN ~Falsy(r.results[n].newUrl)
              ELSE r.results[n].newUrl = NULL /\ ~Falsy(r.results[n].error)
        /\ Cardinality(DOMAIN r.urlMapping) = r.successful

\* C3 amended: successes have a newUrl and their oldUrl is a key of urlMapping; the
\* number of urlMapping entries equals the number of distinct oldUrls of successful
\* outcomes (successful itself when the manifest URLs are pairwise distinct); failures
\* have newUrl = null and a non-empty error.
C3_Amended ==
    \A r \in WrittenReports :
        LET ok == {n \in 1..Len(r.results) : r.results[n].success}
        IN /\ \A n \in 1..Len(r.results) :
                 IF r.results[n].success
                 THEN ~Falsy(r.results[n].newUrl) /\ r.results[n].oldUrl \in DOMAIN r.urlMapping
                 ELSE r.results[n].newUrl = NULL /\ ~Falsy(r.results[n].error)
           /\ Cardinality(ok) = r.successful
           /\ Cardinality(DOMAIN r.urlMapping) = Cardinality({r.results[n].oldUrl : n \in ok})
           /\ (\A m, n \in 1..Len(oldFiles) : m # n => oldFiles[m].url # oldFiles[n].url)
                 => Cardinality(DOMAIN r.urlMapping) = r.successful

\* C3 witness: a report with two successes on the same source URL and one failure.
C3_Witness ==
    \E r \in WrittenReports :
        r.successful = 2 /\ r.failed = 1 /\ Cardinality(DOMAIN r.urlMapping) = 1

\* C4 as stated: every key of urlMapping is the oldUrl of a successful outcome and maps
\* to that outcome's newUrl, and the oldUrl of a failed outcome is never a key.
C4_Original ==
    \A r \in WrittenReports :
        /\ \A u \in DOMAIN r.urlMapping :
              \E n \in 1..Len(r.results) :
                  r.results[n].success /\ r.results[n].oldUrl = u /\ r.results[n].newUrl = r.urlMapping[u]
        /\ \A n \in 1..Len(r.results) :
              ~r.results[n].success => r.results[n].oldUrl \notin DOMAIN r.urlMapping

\* C4 amended: every key of urlMapping is the oldUrl of a successful outcome and maps to
\* the newUrl of such an outcome; the oldUrl of a failed outcome is a key only if
\* another record with the same URL succeeded.
C4_Amended ==
    \A r \in WrittenReports :
        /\ \A u \in DOMAIN r.urlMapping :
              \E n \in 1..Len(r.results) :
                  r.results[n].success /\ r.results[n].oldUrl = u /\ r.results[n].newUrl = r.urlMapping[u]
        /\ \A n \in 1..Len(r.results) :
              (~r.results[n].success /\ r.results[n].oldUrl \in DOMAIN r.urlMapping)
                 => \E m \in 1..Len(r.results) :
                        m # n /\ r.results[m].success /\ r.results[m].oldUrl = r.results[n].oldUrl

\* C4 witness: a report whose mapping has a key shared by a failed and a successful outcome.
C4_Witness ==
    \E r \in WrittenReports : \E m, n \in 1..Len(r.results) :
        /\ r.results[m].success /\ ~r.results[n].success
        /\ r.results[m].oldUrl = r.results[n].oldUrl
        /\ r.urlMapping[r.results[n].oldUrl] = r.results[m].newUrl

\* the messages of the failures a worker can meet: a non-2xx download status, a thrown
\* fetch error, an empty upload result, an upload error payload (a string, an object),
\* an upload result without URL, a rejected upload call
WorkerFailureMessages ==
    {"Failed to download: 404 Not Found",
     "fetch failed",
     "Upload failed: No result returned",
     "Upload failed: Invalid API key",
     "Upload failed: {\"code\": \"FORBIDDEN\"}",
     "Upload failed: No URL in response. Check the result structure above.",
     "Upload request failed"}

\* C5: no worker promise ever rejects, whatever fails inside the worker: a failed worker
\* is fulfilled with success = false, newUrl = null and an error message, so
\* Promise.all never rejects (migrateFiles rejects only outside the batches).
C5_WorkerNeverRejects ==
    /\ \A k \in DOMAIN batchPromises :
          /\ batchPromises[k].state # "rejected"
          /\ (batchPromises[k].state = "fulfilled" /\ ~batchPromises[k].value.success)
                => /\ batchPromises[k].value.newUrl = NULL
                   /\ batchPromises[k].value.error \in WorkerFailureMessages
    /\ pc = "rejected" => rejection \in {"SyntaxError", "EACCES"}

\* C5 witness: a worker fulfilled with a failure (upload answered without a URL) while
\* another worker of the same batch is still in flight.
C5_Witness ==
    \E k, j \in DOMAIN batchPromises :
        /\ batchPromises[k].state = "fulfilled"
        /\ ~batchPromises[k].value.success
        /\ batchPromises[k].value.error = "Upload failed: No URL in response. Check the result structure above."
        /\ batchPromises[j].state = "upload"

\* C7: a run that is not ended by a fatal condition has started ceil(N/5) batches, has
\* downloaded every record once and holds an outcome for every record, whatever failed.
C7_NoCancellation ==
    (pc = "exited" /\ ~FatalRun) =>
        /\ batchesStarted = CeilDiv(Len(oldFiles), batchSize)
        /\ processed = Len(oldFiles)
        /\ Len(results) = Len(oldFiles)
        /\ \A k \in 1..Len(oldFiles) : fetchCalls[k] = 1

\* C7 witness: a finished run of two batches whose first batch holds a failure.
C7_Witness ==
    /\ pc = "exited" /\ ~FatalRun
    /\ batchesStarted = 2
    /\ \E k \in 1..batchSize : ~results[k].success
    /\ results[Len(results)].success

\* C8 as stated: every worker invocation that has settled made exactly one uploadFiles call.
C8_Original ==
    \A k \in 1..Len(oldFiles) : IsSettled(k) => uploadCalls[k] = 1

\* C8 amended: a worker invocation makes at most one uploadFiles call (no retry):
\* exactly one when its download succeeded, none when its download failed.
C8_Amended ==
    \A k \in 1..Len(oldFiles) :
        /\ uploadCalls[k] <= 1
        /\ IsSettled(k) =>
              uploadCalls[k] = (IF ~OutcomeOf(k).success /\ OutcomeOf(k).error \in DownloadFailureMessages
                                THEN 0 ELSE 1)
        /\ (k \in DOMAIN batchPromises /\ batchPromises[k].state = "upload") => uploadCalls[k] = 1
        /\ (k \in DOMAIN batchPromises /\ batchPromises[k].state \in {"fetch", "body"}) => uploadCalls[k] = 0

\* C8 witness: one settled worker whose download failed (no upload call) beside a
\* settled worker that uploaded its file with one call.
C8_Witness ==
    \E k, j \in 1..Len(oldFiles) :
        /\ IsSettled(k) /\ uploadCalls[k] = 0
        /\ IsSettled(j) /\ OutcomeOf(j).success /\ uploadCalls[j] = 1

\* C9: the process ends with status 1 exactly when a record failed or the run was ended
\* by a fatal condition, and with status 0 otherwise (empty manifest included); for the
\* manifest <<A, B>> with A migrated and B answered 404 the report has successful = 1,
\* failed = 1, the single mapping A -> U, and the status is 1.
C9_ExitStatus ==
    pc = "exited" =>
        /\ exitCode \in {0, 1}
        /\ exitCode = 1 <=> (failed > 0 \/ FatalRun)
        /\ (Len(results) = 2 /\ Len(oldFiles) = 2 /\ results[1].success
              /\ results[2].error = "Failed to download: 404 Not Found"
              /\ oldFiles[1].url # oldFiles[2].url) =>
                 /\ exitCode = 1
                 /\ \A r \in WrittenReports :
                       /\ r.successful = 1 /\ r.failed = 1
                       /\ DOMAIN r.urlMapping = {oldFiles[1].url}
                       /\ r.urlMapping[oldFiles[1].url] = results[1].newUrl

\* C9 witness: the end of the two-file run with A migrated and B answered 404.
C9_Witness ==
    /\ pc = "exited" /\ exitCode = 1 /\ ~FatalRun
    /\ Len(results) = 2 /\ results[1].success
    /\ results[2].error = "Failed to download: 404 Not Found"
    /\ Len(reports) = 1

NothingDone ==
    /\ \A k \in DOMAIN fetchCalls : fetchCalls[k] = 0
    /\ \A k \in DOMAIN uploadCalls : uploadCalls[k] = 0
    /\ batchesStarted = 0
    /\ reports = <<>>

\* C11: missing configuration aborts migrateFiles before any batch starts. If
\* UPLOADTHING_TOKEN is unset and UPLOADTHING_SECRET or UPLOADTHING_APP_ID is unset, or
\* the manifest file does not exist, no download, no upload and no report write ever
\* happens and the process exits with status 1. If UPLOADTHING_TOKEN is set the run
\* proceeds even without secret and app id: with a manifest that is there and parses
\* it runs every batch and, unless the report file cannot be written, writes the
\* report. ("Set" is what the code's own diagnostic calls set: a non-empty value.)
C11_MissingConfigurationAborts ==
    /\ ((~env.UPLOADTHING_TOKEN /\ (~env.UPLOADTHING_SECRET \/ ~env.UPLOADTHING_APP_ID))
          \/ ~disk.exists) =>
          /\ NothingDone
          /\ pc \in {"config", "load", "exited"}
          /\ pc = "exited" => exitCode = 1
    /\ (env.UPLOADTHING_TOKEN /\ disk.exists /\ disk.parses /\ pc = "exited") =>
          /\ batchesStarted = CeilDiv(Len(disk.files), batchSize)
          /\ \A k \in DOMAIN fetchCalls : fetchCalls[k] = 1
          /\ rejection = NoRejection => Len(reports) = 1 /\ exitCode = ExitStatus(failed)

\* C11 witness: the run has exited with status 1 at the configuration check (no token,
\* a secret but no app id) although a manifest with a record was there.
C11_Witness ==
    /\ pc = "exited" /\ exitCode = 1
    /\ ~env.UPLOADTHING_TOKEN /\ env.UPLOADTHING_SECRET /\ ~env.UPLOADTHING_APP_ID
    /\ disk.exists /\ disk.parses /\ Len(disk.files) = 1
    /\ NothingDone

\* the file name proper: what follows the last "/" of the name
LastPortion(name) ==
    LET seps == {n \in 1..Len(name) : name[n] = "/"}
    IN IF seps = {} THEN name ELSE SubSeq(name, Max(seps) + 1, Len(name))

\* the last extension of a file name, without its dot: what follows the last "." that
\* is not the first character of the name; empty when there is no such "."
LastExtension(name) ==
    LET dots == {n \in 2..Len(name) : name[n] = "."}
    IN IF dots = {} THEN <<>> ELSE SubSeq(name, Max(dots) + 1, Len(name))

\* the table of C16, on lower-case extensions
TypeOfExtension(ext) ==
    CASE ext \in {<<"j", "p", "g">>, <<"j", "p", "e", "g">>} -> "image/jpeg"
      [] ext = <<"p", "n", "g">> -> "image/png"
      [] ext = <<"g", "i", "f">> -> "image/gif"
      [] ext = <<"w", "e", "b", "p">> -> "image/webp"
      [] ext = <<"p", "d", "f">> -> "application/pdf"
      [] ext \in {<<"m", "p", "4">>, <<"m", "o", "v">>} -> "video/mp4"
      [] ext = <<"m", "p", "3">> -> "audio/mpeg"
      [] OTHER -> "application/octet-stream"

\* C16: the MIME type inferred for a file name depends only on its last extension,
\* compared without regard to case: jpg and jpeg give image/jpeg, png image/png, gif
\* image/gif, webp image/webp, pdf application/pdf, mp4 and mov video/mp4, mp3
\* audio/mpeg; any other extension, or none, gives application/octet-stream.
\* photo.JPG gives image/jpeg and archive.zip gives application/octet-stream.
C16_MimeByLastExtension ==
    (mpc = "typed" /\ fileName # <<>> /\ fileName[Len(fileName)] # "/") =>
        /\ mimeType = TypeOfExtension(toLowerCase(LastExtension(LastPortion(fileName))))
        /\ fileName = <<"p", "h", "o", "t", "o", ".", "J", "P", "G">> => mimeType = "image/jpeg"
        /\ fileName = <<"a", "r", "c", "h", "i", "v", "e", ".", "z", "i", "p">>
              => mimeType = "application/octet-stream"

\* C16 witness: photo.JPG has been typed image/jpeg.
C16_Witness ==
    /\ mpc = "typed"
    /\ fileName = <<"p", "h", "o", "t", "o", ".", "J", "P", "G">>
    /\ mimeType = "image/jpeg"

\* C17: for every manifest length N the loop partitions the records into ceil(N/5)
\* contiguous batches that preserve manifest order. Counting from 0, batch k holds the
\* records 5k .. min(5k+5, N)-1; every batch but the last has 5 records and the last
\* has N - 5*(ceil(N/5)-1); N = 0 gives no batch and N = 12 gives the sizes 5, 5, 2 in
\* that order. While the loop runs, the batches taken so far are the first ones of
\* that partition.
C17_ContiguousBatches ==
    LET N == Len(manifest)
        count == CeilDiv(N, 5)
    IN /\ Len(batches) <= count
       /\ lpc = "left" => Len(batches) = count
       /\ \A k \in 0..(Len(batches) - 1) :
             LET first == 5 * k
                 last == Min(5 * k + 5, N) - 1
             IN /\ Len(batches[k + 1]) = last - first + 1
                /\ \A r \in first..last : batches[k + 1][r - first + 1] = manifest[r + 1]
                /\ k < count - 1 => Len(batches[k + 1]) = 5
                /\ k = count - 1 => Len(batches[k + 1]) = N - 5 * (count - 1)
       /\ (lpc = "left" /\ N = 0) => batches = <<>>
       /\ (lpc = "left" /\ N = 12) =>
             <<Len(batches[1]), Len(batches[2]), Len(batches[3])>> = <<5, 5, 2>>

\* C17 witness: the loop over a manifest of 12 records is left after the batches of
\* records 0-4, 5-9 and 10-11.
C17_Witness ==
    /\ lpc = "left" /\ Len(manifest) = 12
    /\ batches = <<SubSeq(manifest, 1, 5), SubSeq(manifest, 6, 10), SubSeq(manifest, 11, 12)>>

\* the batch (counted from 0) of record k (counted from 1)
BatchNo(k) == (k - 1) \div 5

\* the worker of record k has started: its download was issued
WorkerStarted(k) == fetchCalls[k] > 0

\* the worker of record k has settled: its promise is settled, or its outcome was
\* collected into results
WorkerSettled(k) ==
    IF k \in DOMAIN batchPromises
    THEN batchPromises[k].state \in {"fulfilled", "rejected"}
    ELSE k <= Len(results) /\ results[k].oldUrl = oldFiles[k].url

WorkersInFlight == {k \in DOMAIN fetchCalls : WorkerStarted(k) /\ ~WorkerSettled(k)}

\* C18: batches run strictly one after another. Under every interleaving of the
\* workers of a batch, no worker of a batch has started (no download was issued for its
\* records) unless every worker of every earlier batch has settled; the workers that
\* run belong to one batch, and at most 5 workers are in flight at any time.
C18_BatchesOneAfterAnother ==
    /\ \A k, j \in DOMAIN fetchCalls :
          (WorkerStarted(k) /\ BatchNo(j) < BatchNo(k)) => WorkerSettled(j)
    /\ \A k, j \in WorkersInFlight : BatchNo(k) = BatchNo(j)
    /\ Cardinality(WorkersInFlight) <= 5

\* C18 witness: the worker of record 6 (second batch) is downloading; the five workers
\* of the first batch have settled, one of them with a failure.
C18_Witness ==
    /\ pc = "await" /\ Len(oldFiles) = 6
    /\ WorkersInFlight = {6} /\ batchPromises[6].state = "fetch"
    /\ \A j \in 1..5 : WorkerSettled(j)
    /\ failed = 1 /\ successful = 4

\* C20: the 2-second delay occurs before the start of every batch after the first and
\* nowhere else. No delay precedes the first batch; while batch b (b = 1, 2, ...) runs,
\* b - 1 delays have occurred; a delay is under way only when the batch before it has
\* settled and a further batch remains; after the last batch no delay follows, so a
\* run over N > 0 records makes exactly ceil(N/5) - 1 delay steps.
C20_DelayBetweenBatches ==
    /\ batchesStarted = 0 => delays = 0
    /\ pc = "await" => delays = batchesStarted - 1
    /\ pc = "delay" =>
          /\ delays = batchesStarted - 1
          /\ batchPromises = NoPromises /\ Len(results) = 5 * batchesStarted
          /\ Len(results) < Len(oldFiles)
    /\ (pc = "loop" /\ batchesStarted > 0) =>
          delays = IF Len(results) < Len(oldFiles) THEN batchesStarted ELSE batchesStarted - 1
    /\ (pc \in {"write", "rejected", "exited"} /\ Len(oldFiles) > 0) =>
          delays = CeilDiv(Len(oldFiles), 5) - 1

\* C20 witness: a run over 6 records has ended after two batches and one delay.
C20_Witness ==
    /\ pc = "exited" /\ Len(oldFiles) = 6 /\ Len(results) = 6
    /\ batchesStarted = 2 /\ delays = 1

(***************************************************************************)
(* Properties of the row migration                                         *)
(***************************************************************************)
\* an upsert of the run was rejected
UpsertFailed == dbError \in {"upsert(): P1017", "upsert(): P2002"}

\* the destination holds a row for source row k of table tb
Migrated(tb, k) ==
    \E d \in dest[tb] : IF tb \in PairTables THEN d.pair = source[tb][k].pair
                                              ELSE d.id = source[tb][k].id

\* C6 as stated: after a database error raised by the upsert of one row, the run still
\* upserts the remaining rows of the table and the rows of all following tables.
C6_Original ==
    (rpc = "exited" /\ UpsertFailed) =>
        \A n \in 1..Len(tables) :
            /\ upsertCalls[tables[n]] = Len(source[tables[n]])
            /\ \A k \in 1..Len(source[tables[n]]) :
                  (n # tableIdx \/ k # rowIdx) => Migrated(tables[n], k)

\* C6 amended: a database error raised by the upsert of a row is not caught per row: it
\* ends the table's migrate function and migrate(); no later row of that table and no
\* row of a following table is upserted, the rows upserted before it stay in the
\* destination, and the process exits with status 1.
C6_Amended ==
    UpsertFailed =>
        /\ rpc \in {"failed", "exited"}
        /\ upsertCalls[tables[tableIdx]] = rowIdx
        /\ \A n \in 1..Len(tables) :
              /\ n > tableIdx => upsertCalls[tables[n]] = 0
              /\ n < tableIdx =>
                    /\ upsertCalls[tables[n]] = Len(source[tables[n]])
                    /\ \A k \in 1..Len(source[tables[n]]) : Migrated(tables[n], k)
        /\ \A k \in 1..(rowIdx - 1) : Migrated(tables[tableIdx], k)
        /\ rpc = "exited" => rowsExit = 1

\* C6 witness: the run has ended after the upsert of the first of two Course rows was
\* rejected: the second Course row and the following tables were never upserted.
C6_Witness ==
    /\ rpc = "exited" /\ UpsertFailed
    /\ tables[tableIdx] = "Course" /\ rowIdx = 1
    /\ Len(source["Course"]) = 2 /\ upsertCalls["Course"] = 1
    /\ upsertCalls["User"] = 2
    /\ upsertCalls["QuizAnswer"] = 0 /\ dest["Quiz"] = {}
    /\ rowsExit = 1

\* the position of a table in the migration order
TableIndex(tb) == CHOOSE n \in 1..Len(tables) : tables[n] = tb

\* the rows of a destination table that this run wrote (the source's column values)
RowsWritten(tb) == {d \in dest[tb] : d.data = "aiven"}

\* C12 as stated: if a source table cannot be queried, no row of any table has been
\* written to the destination when the run ends, and the exit status is 1.
C12_Original ==
    (rpc = "exited" /\ unqueryable # "none") =>
        /\ rowsExit = 1
        /\ \A tb \in TableNames : RowsWritten(tb) = {}

\* C12 amended: a source table that cannot be queried is counted as 0 rows and the run
\* goes on; it aborts only when that table's turn comes and its findMany fails. No row
\* of that table or of a later table is ever written, the run never reaches the
\* verification, and it exits with status 1; when it ends at that table's findMany,
\* every row of the tables before it in the migration order has been written.
C12_Amended ==
    unqueryable # "none" =>
        LET u == TableIndex(unqueryable)
        IN /\ \A n \in u..Len(tables) : RowsWritten(tables[n]) = {} /\ upsertCalls[tables[n]] = 0
           /\ stats # <<>> => stats[u].rowCount = 0
           /\ rpc \notin {"verify", "done"} /\ tableIdx <= u
           /\ rpc = "exited" => rowsExit = 1
           /\ (rpc = "exited" /\ tableIdx = u) =>
                 /\ dbError = "findMany(): P2021"
                 /\ \A n \in 1..(u - 1) : \A k \in 1..Len(source[tables[n]]) :
                       Written(tables[n], source[tables[n]][k]) \in dest[tables[n]]

\* C12 witness: Chapter cannot be queried; the run has exited with status 1 after it
\* wrote the two rows of User, Course and Attachment and no Chapter row.
C12_Witness ==
    /\ rpc = "exited" /\ rowsExit = 1
    /\ unqueryable = "Chapter" /\ tableIdx = TableIndex("Chapter")
    /\ Len(source["User"]) = 2
    /\ \A tb \in {"User", "Course", "Attachment"} : Cardinality(RowsWritten(tb)) = 2
    /\ RowsWritten("Chapter") = {}

\* the destination-write step of source row k of table tb has been done: its upsert was
\* called and was not the one that failed
WriteStepDone(tb, k) ==
    k <= upsertCalls[tb] - (IF UpsertFailed /\ tables[tableIdx] = tb THEN 1 ELSE 0)

\* C13 as stated: after the destination-write step for a source row the destination
\* holds a row equal to the source row in every column, with the source row's id and
\* timestamps, whatever the destination held before the write (no row, a row with the
\* same id, or for UserProgress/Purchase a row with the same pair under another id).
C13_Original ==
    \A tb \in TableNames : \A k \in 1..Len(source[tb]) :
        WriteStepDone(tb, k) => source[tb][k] \in dest[tb]

\* C13, the case of the pair tables alone: after the write step of a UserProgress or
\* Purchase row the destination holds a row with the source row's id.
C13_PairRowKeepsSourceId ==
    \A tb \in PairTables : \A k \in 1..Len(source[tb]) :
        WriteStepDone(tb, k) => \E d \in dest[tb] : d.id = source[tb][k].id

\* the upsert of `row` applied to destRows, and applied once more to what that left
UpsertOnce(tb, destRows, row) == Upsert(tb, destRows, row)
UpsertTwice(tb, destRows, row) == Upsert(tb, UpsertOnce(tb, destRows, row).rows, row)

\* C14: the destination write is idempotent. For every table, every source row and
\* every destination state the run passes through, applying the row's upsert twice
\* in a row leaves the destination table as applying it once does, and the second
\* application succeeds whenever the first one did.
C14_UpsertIdempotent ==
    \A tb \in TableNames : \A k \in 1..Len(source[tb]) :
        LET once == UpsertOnce(tb, dest[tb], source[tb][k])
            twice == UpsertTwice(tb, dest[tb], source[tb][k])
        IN /\ twice.rows = once.rows
           /\ ~once.threw => ~twice.threw

\* C14 witness: the upsert of UserProgress row 1 has updated the row that held its pair
\* under another id, the second UserProgress row is not yet written, and both kinds of
\* re-application are at hand: of row 1 (update) and, after it, of row 2 (create).
C14_Witness ==
    /\ rpc = "upsert" /\ tables[tableIdx] = "UserProgress" /\ rowIdx = 2
    /\ Row(9, 1, "aiven", UNDEF) \in dest["UserProgress"]
    /\ UpsertOnce("UserProgress", dest["UserProgress"], source["UserProgress"][1]).rows
          = dest["UserProgress"]
    /\ UpsertOnce("UserProgress", dest["UserProgress"], source["UserProgress"][2]).rows
          # dest["UserProgress"]
    /\ dest["User"] = {source["User"][1], source["User"][2]}

\* the schema was found missing and `prisma db push` was run
SchemaCreated == schemaPushes > 0

\* the run ended at the schema check: with the error ensurePrismaSchema throws after a
\* failed push or re-verification, or with the probe's own error rethrown
SchemaCreationFailed == dbError = "Failed to create Prisma database schema"
ProbeRethrown == dbError = "$queryRawUnsafe(): P1017" /\ stats = <<>>

\* C15: when the probe of table User finds the schema missing, ensurePrismaSchema makes
\* exactly one creation attempt (never more). If the push and the re-verification
\* succeed, the migration goes on: a run that then ends without error has migrated all
\* 13 tables and its per-table destination counts equal the source counts (and the
\* counts taken before the migration). If the push or the re-verification fails no
\* table is migrated and the process exits with status 1. A probe failure of another
\* kind is rethrown without a creation attempt, and the process exits with status 1.
C15_SchemaCreatedOnce ==
    /\ schemaPushes <= 1
    /\ (SchemaCreated /\ ~SchemaCreationFailed) => rpc \notin {"schema", "connect", "start"}
    /\ (SchemaCreated /\ rpc = "exited" /\ rowsExit = 0) =>
          \A n \in 1..Len(tables) :
              /\ upsertCalls[tables[n]] = Len(source[tables[n]])
              /\ Cardinality(dest[tables[n]]) = Len(source[tables[n]])
              /\ stats[n].rowCount = Cardinality(dest[tables[n]])
    /\ SchemaCreationFailed =>
          /\ schemaPushes = 1
          /\ rpc \in {"failed", "exited"}
          /\ \A tb \in TableNames : upsertCalls[tb] = 0 /\ dest[tb] = {}
          /\ rpc = "exited" => rowsExit = 1
    /\ ProbeRethrown =>
          /\ schemaPushes = 0
          /\ rpc \in {"failed", "exited"}
          /\ \A tb \in TableNames : upsertCalls[tb] = 0
          /\ rpc = "exited" => rowsExit = 1

\* C15 witness: the schema was created by the one push, and the run has ended with
\* status 0 and two rows in each of the 13 destination tables.
C15_Witness ==
    /\ rpc = "exited" /\ rowsExit = 0 /\ schemaPushes = 1
    /\ Len(source["User"]) = 2
    /\ \A tb \in TableNames : Cardinality(dest[tb]) = 2

\* every source row of table tb has been upserted and is in the destination
MigratedCompletely(tb) ==
    /\ upsertCalls[tb] = Len(source[tb])
    /\ \A k \in 1..Len(source[tb]) : Migrated(tb, k)

\* an upsert of a row of table tb is called, or was called before
UpsertReached(tb) == upsertCalls[tb] > 0 \/ (rpc = "upsert" /\ tables[tableIdx] = tb)

\* C19: the 13 tables are processed one after another in the order User, Course,
\* Attachment, Chapter, ChapterAttachment, UserProgress, PurchaseCode, Purchase,
\* BalanceTransaction, Quiz, Question, QuizResult, QuizAnswer. At every moment the
\* tables before the current one are migrated completely and no row of a table after
\* it has been upserted; so whenever a row is upserted, every table it references by
\* a foreign key has been migrated completely.
C19_TablesInForeignKeyOrder ==
    /\ tables = <<"User", "Course", "Attachment", "Chapter", "ChapterAttachment",
                  "UserProgress", "PurchaseCode", "Purchase", "BalanceTransaction",
                  "Quiz", "Question", "QuizResult", "QuizAnswer">>
    /\ \A n \in 1..Len(tables) :
          /\ n < tableIdx => MigratedCompletely(tables[n])
          /\ n > tableIdx => upsertCalls[tables[n]] = 0 /\ RowsWritten(tables[n]) = {}
          /\ UpsertReached(tables[n]) =>
                \A ref \in References(tables[n]) : MigratedCompletely(ref)

\* C19 witness: the second QuizAnswer row is about to be upserted; Question and
\* QuizResult, which it references, hold their two rows.
C19_Witness ==
    /\ rpc = "upsert" /\ tables[tableIdx] = "QuizAnswer" /\ rowIdx = 2
    /\ upsertCalls["QuizAnswer"] = 1
    /\ \A ref \in References("QuizAnswer") :
          MigratedCompletely(ref) /\ Cardinality(RowsWritten(ref)) = 2

(***************************************************************************)
(* Properties of the route handlers                                        *)
(***************************************************************************)
\* the grades a User row may hold
ValidOrNull == {"first secondary", "second secondary", "third secondary", NULL}

\* the PATCH requests that were answered after their body was read as a JSON object
\* or another JSON value that is not null
AnsweredPatches ==
    {c \in Clients : /\ clients[c].at = "responded" /\ clients[c].method = "PATCH"
                     /\ clients[c].body.kind \in {"object", "number"}}

\* C21: after any sequence of PATCH /api/user/grade requests (two clients at a time,
\* their handlers interleaved), every stored grade is one of the three valid grade
\* strings or null. A request whose grade is a non-empty value outside the valid list
\* gets status 400 and makes no database call; a request with a valid grade has it
\* stored for the session's user, and a request with an empty or missing grade has
\* null stored (status 200 with the stored value, or 500 if the database call fails).
\* "Empty" is what the handler's test calls empty: every falsy value ("", null, a
\* missing key, and also 0 and false).
C21_StoredGradeValidOrNull ==
    /\ \A id \in DOMAIN users : users[id].grade \in ValidOrNull
    /\ \A c \in AnsweredPatches :
          LET r == clients[c]
              g == r.body.grade
              stored == IF g.t = "string" /\ g.v \in ValidOrNull THEN g.v ELSE NULL
          IN IF Truthy(g) /\ ~(g.t = "string" /\ g.v \in ValidOrNull)
             THEN r.response.status = 400 /\ ~r.call.made
             ELSE /\ r.call = UpdateCall(r.session, stored)
                  /\ r.response.status \in {200, 500}
                  /\ r.response.status = 200 => r.response.grade = stored

\* C21 witness: c1 was refused the grade "fourth secondary" with status 400; c2 cleared
\* the grade of u2 (which was "third secondary") by sending an empty grade.
C21_Witness ==
    /\ clients["c1"].at = "responded" /\ clients["c1"].session = "u1"
    /\ clients["c1"].body.grade = JString("fourth secondary")
    /\ clients["c1"].response.status = 400
    /\ users["u1"] = InitialUsers["u1"]
    /\ clients["c2"].at = "responded" /\ clients["c2"].session = "u2"
    /\ clients["c2"].body.grade = JString("")
    /\ clients["c2"].response = Response(200, NULL)
    /\ users["u2"].grade = NULL /\ InitialUsers["u2"].grade = "third secondary"

\* a step of the handlers changes the row of user id
RowChanges(id) == users'[id] # users[id]

\* the step is the settling of the update of a PATCH request made under the session
\* of user id, answered with status 200
UpdateSettlesFor(id) ==
    \E c \in Clients :
        /\ clients[c].at = "update" /\ clients[c].method = "PATCH"
        /\ clients[c].session = id
        /\ clients'[c].at = "responded" /\ clients'[c].response.status = 200

\* what holds of every state: no row is created or deleted, no column other than grade
\* differs from what it was, a database call is made only under a session id and for
\* that id, and a request answered 401 made none
GradeFrame ==
    /\ DOMAIN users = DOMAIN InitialUsers
    /\ \A id \in DOMAIN users :
          /\ users[id].fullName = InitialUsers[id].fullName
          /\ users[id].phoneNumber = InitialUsers[id].phoneNumber
    /\ \A c \in Clients :
          /\ clients[c].call.made =>
                /\ clients[c].method = "PATCH" /\ ~Falsy(clients[c].session)
                /\ clients[c].call.where = clients[c].session
          /\ (clients[c].at = "responded" /\ clients[c].response.status = 401) =>
                ~clients[c].call.made /\ Falsy(clients[c].session)
          /\ (clients[c].at = "responded" /\ Falsy(clients[c].session)) =>
                clients[c].response.status \in {401, 500}

\* C22: PATCH /api/user/grade changes at most the grade of the user identified by the
\* session. A request without a session user id gets status 401 and makes no database
\* call; no step of a handler (PATCH or GET /api/user/profile) changes a row except
\* the settling of the update of a PATCH under that row's user's session, and then
\* only the grade changes.
C22_OnlyOwnGradeChanges ==
    /\ []GradeFrame
    /\ [][\A id \in DOMAIN users :
            RowChanges(id) =>
                /\ UpdateSettlesFor(id)
                /\ users'[id] = [users[id] EXCEPT !.grade = users'[id].grade]]_vars

\* C22 witness: c1 was answered 401 and made no call; c2, under the session of u2, has
\* set the grade of u2; the row of u1 is as it was.
C22_Witness ==
    /\ clients["c1"].at = "responded" /\ clients["c1"].method = "PATCH"
    /\ clients["c1"].response.status = 401 /\ ~clients["c1"].call.made
    /\ clients["c2"].at = "responded" /\ clients["c2"].session = "u2"
    /\ clients["c2"].response = Response(200, "first secondary")
    /\ users["u2"] = [InitialUsers["u2"] EXCEPT !.grade = "first secondary"]
    /\ users["u1"] = InitialUsers["u1"]

====
